---- MODULE Spec2Model ----
(***************************************************************************)
(* Model of server/table.go of kolide/osquery-go: the adapter              *)
(* tablePluginImpl that wraps a TablePlugin and answers the osquery        *)
(* extension calls Name, RegistryName, Routes, Ping, Call and Shutdown.    *)
(*                                                                         *)
(* Go values are represented as follows.                                   *)
(*   string            a TLA+ string; the "context" value of a request is  *)
(*                     kept as the sequence of its characters, because the *)
(*                     JSON decoder scans it character by character        *)
(*   []T               [isNil |-> BOOLEAN, elems |-> sequence]             *)
(*   map[string]string a function from its keys                            *)
(*   error             [isNil |-> BOOLEAN, text |-> string]                *)
(*   *ExtensionStatus  [ref |-> "StatusOK"] for &StatusOK, the address of  *)
(*                     the package variable, or [ref |-> "new", obj |-> s] *)
(*                     for the address of a struct allocated by the call   *)
(*   interface{}       a record tagged by its dynamic type in field t      *)
(***************************************************************************)
EXTENDS Integers, Sequences, FiniteSets, TLC

VARIABLES
    StatusOK,   \* the package variable StatusOK, an ExtensionStatus struct
    plugin,     \* the wrapped TablePlugin: what TableName() and Columns() return
    ret         \* the operation that returned last, its arguments and its result

vars == <<StatusOK, plugin, ret>>

(***************************************************************************)
(* Bounds of the model.                                                    *)
(***************************************************************************)
\* longest "context" string of a request, in characters
MaxCtxLen == 2
\* longest column list the plugin declares
MaxCols == 2
\* most rows one Generate invocation returns
MaxRows == 2

\* every sequence over S of length at most n
SeqUpTo(S, n) == UNION {[1..k -> S] : k \in 0..n}

(***************************************************************************)
(* Go slices and errors.                                                   *)
(***************************************************************************)
NilSlice == [isNil |-> TRUE, elems |-> <<>>]
Slice(elems) == [isNil |-> FALSE, elems |-> elems]
\* every slice value of element type S with at most n elements
SlicesUpTo(S, n) == {NilSlice} \cup {Slice(e) : e \in SeqUpTo(S, n)}

NilError == [isNil |-> TRUE, text |-> ""]
Error(text) == [isNil |-> FALSE, text |-> text]

(***************************************************************************)
(* ColumnDefinition, ColumnType and the two column helpers.                *)
(***************************************************************************)
ColumnTypeString == "TEXT"
ColumnTypeInteger == "INTEGER"
ColumnDefinition(name, type) == [Name |-> name, Type |-> type]
StringColumn(name) == ColumnDefinition(name, ColumnTypeString)
IntegerColumn(name) == ColumnDefinition(name, ColumnTypeInteger)

(***************************************************************************)
(* encoding/json: json.Unmarshal([]byte(ctxJSON), &queryContext) with      *)
(* queryContext an interface{}.  The decoder is modelled on the JSON made  *)
(* of the characters of JSONChars: numbers written with the digit 1,       *)
(* arrays, and the empty object (an object member needs a quote, which is  *)
(* not among JSONChars).  A number decodes to a float64, an array to a     *)
(* []interface{}, an object to a map[string]interface{}.  The error texts  *)
(* are those of the decoder's scanner.                                     *)
(***************************************************************************)
JSONChars == {"[", "]", "{", "}", "1", ","}

NilValue == [t |-> "nil"]
Float64(n) == [t |-> "float64", n |-> n]
InterfaceSlice(elems) == [t |-> "[]interface{}", elems |-> elems]
EmptyInterfaceMap == [t |-> "map[string]interface{}"]

UnexpectedEnd == Error("unexpected end of JSON input")
InvalidChar(c, where) == Error("invalid character '" \o c \o "' " \o where)

ScanOK(val, rest) == [err |-> NilError, val |-> val, rest |-> rest]
ScanFail(err) == [err |-> err, val |-> NilValue, rest |-> <<>>]

RECURSIVE ScanDigits(_, _)
\* the digits that continue a number whose value so far is n
ScanDigits(s, n) ==
    IF s # <<>> /\ Head(s) = "1"
    THEN ScanDigits(Tail(s), 10 * n + 1)
    ELSE ScanOK(Float64(n), s)

RECURSIVE ScanValue(_)
RECURSIVE ScanElements(_, _)
\* one JSON value at the head of s
ScanValue(s) ==
    IF s = <<>> THEN ScanFail(UnexpectedEnd)
    ELSE CASE Head(s) = "1" -> ScanDigits(Tail(s), 1)
           [] Head(s) = "[" ->
                IF Tail(s) = <<>> THEN ScanFail(UnexpectedEnd)
                ELSE IF Head(Tail(s)) = "]"
                     THEN ScanOK(InterfaceSlice(<<>>), Tail(Tail(s)))
                     ELSE ScanElements(Tail(s), <<>>)
           [] Head(s) = "{" ->
                IF Tail(s) = <<>> THEN ScanFail(UnexpectedEnd)
                ELSE IF Head(Tail(s)) = "}"
                     THEN ScanOK(EmptyInterfaceMap, Tail(Tail(s)))
                     ELSE ScanFail(InvalidChar(Head(Tail(s)),
                              "looking for beginning of object key string"))
           [] OTHER ->
                ScanFail(InvalidChar(Head(s), "looking for beginning of value"))

\* the elements of an array from the head of s on, acc being those before
ScanElements(s, acc) ==
    LET v == ScanValue(s) IN
    IF ~v.err.isNil THEN v
    ELSE IF v.rest = <<>> THEN ScanFail(UnexpectedEnd)
    ELSE CASE Head(v.rest) = "," ->
                ScanElements(Tail(v.rest), Append(acc, v.val))
           [] Head(v.rest) = "]" ->
                ScanOK(InterfaceSlice(Append(acc, v.val)), Tail(v.rest))
           [] OTHER ->
                ScanFail(InvalidChar(Head(v.rest), "after array element"))

\* json.Unmarshal into a nil interface{}: the error and the value stored
\* (nothing is stored when the input is not valid JSON)
Unmarshal(data) ==
    LET v == ScanValue(data) IN
    IF ~v.err.isNil THEN [err |-> v.err, val |-> NilValue]
    ELSE IF v.rest # <<>>
         THEN [err |-> InvalidChar(Head(v.rest), "after top-level value"),
               val |-> NilValue]
         ELSE [err |-> NilError, val |-> v.val]

(***************************************************************************)
(* The adapter, tablePluginImpl.                                           *)
(***************************************************************************)
\* ExtensionStatus
Status(code, message) == [Code |-> code, Message |-> message]

\* what a *ExtensionStatus points to
Deref(p) == IF p.ref = "StatusOK" THEN StatusOK ELSE p.obj
AddrStatusOK == [ref |-> "StatusOK"]
NewStatus(code, message) == [ref |-> "new", obj |-> Status(code, message)]

\* ExtensionResponse; a field left out of the literal is nil
ExtensionResponse(status, response) == [Status |-> status, Response |-> response]

\* request[k] of a Go map: the empty string when the key is absent
MapGet(m, k) == IF k \in DOMAIN m THEN m[k] ELSE ""

Name == plugin.name

RegistryName == "table"

RECURSIVE AppendRoutes(_, _)
\* the loop of Routes: one route appended per column, in order
AppendRoutes(routes, cols) ==
    IF cols = <<>> THEN routes
    ELSE AppendRoutes(
             Append(routes, [id |-> "column",
                             name |-> Head(cols).Name,
                             type |-> Head(cols).Type,
                             op |-> "0"]),
             Tail(cols))

\* Routes declaring every column a text column
RoutesAllText ==
    Slice([i \in 1..Len(plugin.columns.elems) |->
              [id |-> "column", name |-> plugin.columns.elems[i].Name,
               type |-> ColumnTypeString, op |-> "0"]])

Routes == Slice(AppendRoutes(<<>>, plugin.columns.elems))

\* Ping answering with a failure status
PingFailing == Status(1, "ping")

\* Ping returns the struct StatusOK by value
Ping == StatusOK

\* Call, case "generate", when json.Unmarshal fails with err
ParseErrorResponse(err) ==
    ExtensionResponse(
        NewStatus(1, "error parsing context JSON: " \o err.text), NilSlice)

\* the error response of Generate that keeps the rows returned with the error
GenerateErrorResponseKeepsRows(rows, err) ==
    ExtensionResponse(
        NewStatus(1, "error generating table: " \o err.text), rows)

\* Call, case "generate", when Generate returns a non-nil err
GenerateErrorResponse(rows, err) ==
    ExtensionResponse(
        NewStatus(1, "error generating table: " \o err.text), NilSlice)

\* the response to a successful Generate that leaves the payload out
GenerateOKResponseNoRows(rows) == ExtensionResponse(AddrStatusOK, NilSlice)

\* Call, case "generate", when Generate returns rows and a nil error
GenerateOKResponse(rows) == ExtensionResponse(AddrStatusOK, rows)

\* Call, case "columns"
ColumnsResponse == ExtensionResponse(AddrStatusOK, Routes)

\* the default case naming no action in its message
UnknownActionResponseNoAction(request) ==
    ExtensionResponse(NewStatus(1, "unknown action"), NilSlice)

\* Call, default case
UnknownActionResponse(request) ==
    ExtensionResponse(
        NewStatus(1, "unknown action: " \o MapGet(request, "action")), NilSlice)

\* Call returned resp; trace lists the calls it made outside the adapter
\* and generated what Generate returned to it, if it was invoked
Returned(request, queryContext, trace, generated, resp) ==
    [op |-> "Call", pc |-> "returned", request |-> request,
     queryContext |-> queryContext, trace |-> trace,
     generated |-> generated, resp |-> resp, written |-> FALSE]

\* Call is inside t.plugin.Generate(ctx, queryContext)
InGenerate(request, queryContext, trace) ==
    [op |-> "Call", pc |-> "Generate", request |-> request,
     queryContext |-> queryContext, trace |-> Append(trace, "Generate")]

\* Call going on to Generate after a context that failed to parse
CallEnterIgnoresParseError(request) ==
    LET action == MapGet(request, "action") IN
    CASE action = "generate" ->
           IF "context" \in DOMAIN request
           THEN LET dec == Unmarshal(request["context"]) IN
                InGenerate(request, dec.val, <<"json.Unmarshal">>)
           ELSE InGenerate(request, NilValue, <<>>)
      [] action = "columns" ->
           Returned(request, NilValue, <<"Columns">>, <<>>, ColumnsResponse)
      [] OTHER ->
           Returned(request, NilValue, <<>>, <<>>,
                    UnknownActionResponse(request))

\* Call parsing the context before it looks at the action
CallEnterParsesFirst(request) ==
    LET action == MapGet(request, "action")
        dec == IF "context" \in DOMAIN request
               THEN Unmarshal(request["context"])
               ELSE [err |-> NilError, val |-> NilValue]
        trace == IF "context" \in DOMAIN request
                 THEN <<"json.Unmarshal">> ELSE <<>>
    IN
    IF ~dec.err.isNil
    THEN Returned(request, NilValue, trace, <<>>, ParseErrorResponse(dec.err))
    ELSE CASE action = "generate" -> InGenerate(request, dec.val, trace)
           [] action = "columns" ->
                Returned(request, NilValue, Append(trace, "Columns"), <<>>,
                         ColumnsResponse)
           [] OTHER ->
                Returned(request, NilValue, trace, <<>>,
                         UnknownActionResponse(request))

\* Call parsing request["context"] whether or not the key is there
CallEnterParsesAbsentContext(request) ==
    LET action == MapGet(request, "action") IN
    CASE action = "generate" ->
           LET dec == Unmarshal(IF "context" \in DOMAIN request
                                THEN request["context"] ELSE <<>>) IN
           IF ~dec.err.isNil
           THEN Returned(request, NilValue, <<"json.Unmarshal">>, <<>>,
                         ParseErrorResponse(dec.err))
           ELSE InGenerate(request, dec.val, <<"json.Unmarshal">>)
      [] action = "columns" ->
           Returned(request, NilValue, <<"Columns">>, <<>>, ColumnsResponse)
      [] OTHER ->
           Returned(request, NilValue, <<>>, <<>>,
                    UnknownActionResponse(request))

\* Call from its entry to its first return or to the invocation of Generate
CallEnter(request) ==
    LET action == MapGet(request, "action") IN
    CASE action = "generate" ->
           IF "context" \in DOMAIN request
           THEN LET dec == Unmarshal(request["context"]) IN
                IF ~dec.err.isNil
                THEN Returned(request, NilValue, <<"json.Unmarshal">>, <<>>,
                              ParseErrorResponse(dec.err))
                ELSE InGenerate(request, dec.val, <<"json.Unmarshal">>)
           ELSE InGenerate(request, NilValue, <<>>)
      [] action = "columns" ->
           Returned(request, NilValue, <<"Columns">>, <<>>, ColumnsResponse)
      [] OTHER ->
           Returned(request, NilValue, <<>>, <<>>,
                    UnknownActionResponse(request))

\* Call invoking Generate again when it returned an error
CallResumeRetries(call, rows, err) ==
    IF ~err.isNil
    THEN InGenerate(call.request, call.queryContext, call.trace)
    ELSE Returned(call.request, call.queryContext, call.trace,
                  <<[rows |-> rows, err |-> err]>>, GenerateOKResponse(rows))

\* Call from the return of Generate, with rows and err, to its return
CallResume(call, rows, err) ==
    LET generated == <<[rows |-> rows, err |-> err]>> IN
    IF ~err.isNil
    THEN Returned(call.request, call.queryContext, call.trace, generated,
                  GenerateErrorResponse(rows, err))
    ELSE Returned(call.request, call.queryContext, call.trace, generated,
                  GenerateOKResponse(rows))

(***************************************************************************)
(* The environment: the plugins wrapped, the requests the host sends and   *)
(* what a plugin's Generate returns.                                       *)
(***************************************************************************)
TableNames == {"example_table"}
ColumnDefs == {StringColumn("text"), IntegerColumn("integer")}
Plugins ==
    [name : TableNames, columns : SlicesUpTo(ColumnDefs, MaxCols)]

Actions == {"generate", "columns", "frobnicate"}
Contexts == SeqUpTo(JSONChars, MaxCtxLen)
\* ExtensionPluginRequest, a map[string]string: with or without each key
Requests ==
    {<<>>}
        \cup {[action |-> a] : a \in Actions}
        \cup {[context |-> c] : c \in Contexts}
        \cup {[action |-> a, context |-> c] : a \in Actions, c \in Contexts}

Rows == {[col1 |-> "a"], [col1 |-> "b"]}
GenerateErrors == {NilError, Error("boom")}
\* Generate may return any rows with any error
GenerateResults ==
    [rows : SlicesUpTo(Rows, MaxRows), err : GenerateErrors]

(***************************************************************************)
(* The state machine: the host calls one operation of the adapter at a     *)
(* time; a Call that reached Generate is inside the plugin until Generate  *)
(* returns.                                                                *)
(***************************************************************************)
Idle == ~(ret.op = "Call" /\ ret.pc = "Generate")

\* the declaration of StatusOK
StatusOKInit == Status(0, "")

\* NewTablePlugin(plugin)
Init ==
    /\ StatusOK = StatusOKInit
    /\ plugin \in Plugins
    /\ ret = [op |-> "NewTablePlugin"]

DoName ==
    /\ Idle
    /\ ret' = [op |-> "Name", value |-> Name]
    /\ UNCHANGED <<StatusOK, plugin>>

DoRegistryName ==
    /\ Idle
    /\ ret' = [op |-> "RegistryName", value |-> RegistryName]
    /\ UNCHANGED <<StatusOK, plugin>>

DoRoutes ==
    /\ Idle
    /\ ret' = [op |-> "Routes", value |-> Routes]
    /\ UNCHANGED <<StatusOK, plugin>>

DoPing ==
    /\ Idle
    /\ ret' = [op |-> "Ping", status |-> Ping]
    /\ UNCHANGED <<StatusOK, plugin>>

DoShutdown ==
    /\ Idle
    /\ ret' = [op |-> "Shutdown"]
    /\ UNCHANGED <<StatusOK, plugin>>

DoCall ==
    /\ Idle
    /\ \E request \in Requests : ret' = CallEnter(request)
    /\ UNCHANGED <<StatusOK, plugin>>

GenerateReturns ==
    /\ ~Idle
    /\ \E g \in GenerateResults : ret' = CallResume(ret, g.rows, g.err)
    /\ UNCHANGED <<StatusOK, plugin>>

Next ==
    \/ DoName
    \/ DoRegistryName
    \/ DoRoutes
    \/ DoPing
    \/ DoShutdown
    \/ DoCall
    \/ GenerateReturns

Spec == Init /\ [][Next]_vars

(***************************************************************************)
(* The caller of Call holds the ExtensionResponse it was returned, and     *)
(* with it the pointer Status.  SpecCaller adds a caller that assigns to   *)
(* the fields of that status.                                              *)
(***************************************************************************)
CallerCodes == {0, 1}
CallerMessages == {"", "changed"}

\* *resp.Status = s
StoreStatus(s) ==
    IF ret.resp.Status.ref = "StatusOK"
    THEN /\ StatusOK' = s
         /\ ret' = [ret EXCEPT !.written = TRUE]
    ELSE /\ ret' = [ret EXCEPT !.resp.Status.obj = s, !.written = TRUE]
         /\ UNCHANGED StatusOK

\* resp.Status.Code = code
CallerSetsCode ==
    /\ ret.op = "Call" /\ ret.pc = "returned"
    /\ \E code \in CallerCodes :
           StoreStatus([Deref(ret.resp.Status) EXCEPT !.Code = code])
    /\ UNCHANGED plugin

\* resp.Status.Message = message
CallerSetsMessage ==
    /\ ret.op = "Call" /\ ret.pc = "returned"
    /\ \E message \in CallerMessages :
           StoreStatus([Deref(ret.resp.Status) EXCEPT !.Message = message])
    /\ UNCHANGED plugin

NextCaller ==
    \/ Next
    \/ CallerSetsCode
    \/ CallerSetsMessage

SpecCaller == Init /\ [][NextCaller]_vars

(***************************************************************************)
(* What the formulas below read of the state.                              *)
(***************************************************************************)
InCall == ret.op = "Call"
CallReturned == ret.op = "Call" /\ ret.pc = "returned"
ReqAction == MapGet(ret.request, "action")
HasContext == "context" \in DOMAIN ret.request
\* the context of the request is there and is not valid JSON
ContextFails == HasContext /\ ~Unmarshal(ret.request["context"]).err.isNil
\* the context of the request is absent or valid JSON
ContextPasses == ~HasContext \/ Unmarshal(ret.request["context"]).err.isNil
\* how many times e occurs in the trace of the call
Count(e) == Cardinality({i \in DOMAIN ret.trace : ret.trace[i] = e})
RespStatus == Deref(ret.resp.Status)

(***************************************************************************)
(* C1.  A Call with action "generate" whose "context" is not parsable JSON *)
(* returns status code 1, the message "error parsing context JSON: "       *)
(* followed by the decoder's error text, and no payload; Generate is not   *)
(* invoked at any point of that Call.                                      *)
(***************************************************************************)
C1_ParseErrorResponse ==
    (InCall /\ ReqAction = "generate" /\ ContextFails) =>
        /\ ret.pc = "returned"
        /\ Count("Generate") = 0
        /\ ret.generated = <<>>
        /\ RespStatus.Code = 1
        /\ RespStatus.Message =
               "error parsing context JSON: "
                   \o Unmarshal(ret.request["context"]).err.text
        /\ ret.resp.Response = NilSlice

C1_Witness ==
    /\ CallReturned
    /\ ret.request = [action |-> "generate", context |-> <<"{", "1">>]
    /\ RespStatus =
           Status(1, "error parsing context JSON: invalid character '1' looking for beginning of object key string")

(***************************************************************************)
(* C2.  A Call with action "generate" whose context is absent or parses,   *)
(* and whose Generate returns an error with text E, returns status code 1, *)
(* the message "error generating table: " followed by E, and no payload:   *)
(* rows returned with the error are discarded.                             *)
(***************************************************************************)
C2_GenerateErrorResponse ==
    (CallReturned /\ ReqAction = "generate" /\ ContextPasses
         /\ Len(ret.generated) = 1 /\ ~ret.generated[1].err.isNil) =>
        /\ RespStatus.Code = 1
        /\ RespStatus.Message =
               "error generating table: " \o ret.generated[1].err.text
        /\ ret.resp.Response = NilSlice

C2_Witness ==
    /\ CallReturned
    /\ ret.request = [action |-> "generate"]
    /\ ret.generated =
           <<[rows |-> Slice(<<[col1 |-> "a"]>>), err |-> Error("boom")]>>
    /\ RespStatus = Status(1, "error generating table: boom")
    /\ ret.resp.Response = NilSlice

(***************************************************************************)
(* C3.  A Call with action "generate" whose context is absent or parses,   *)
(* and whose Generate returns rows R and no error, returns the status OK   *)
(* (code 0, empty message) and the payload R: the same rows in the same    *)
(* order.                                                                  *)
(***************************************************************************)
C3_GenerateOKResponse ==
    (CallReturned /\ ReqAction = "generate" /\ ContextPasses
         /\ Len(ret.generated) = 1 /\ ret.generated[1].err.isNil) =>
        /\ RespStatus = Status(0, "")
        /\ ret.resp.Response = ret.generated[1].rows

C3_Witness ==
    /\ CallReturned
    /\ ret.request = [action |-> "generate", context |-> <<"[", "]">>]
    /\ ret.generated =
           <<[rows |-> Slice(<<[col1 |-> "b"], [col1 |-> "a"]>>),
              err |-> NilError]>>
    /\ ret.resp.Response = Slice(<<[col1 |-> "b"], [col1 |-> "a"]>>)
    /\ RespStatus.Code = 0

(***************************************************************************)
(* C4.  A Call with action "columns", after any operations and whatever    *)
(* other keys the request carries, returns the status OK (code 0) and the  *)
(* payload Routes(); Generate is not invoked and the "context" is not      *)
(* parsed.                                                                 *)
(***************************************************************************)
C4_ColumnsResponse ==
    (InCall /\ ReqAction = "columns") =>
        /\ ret.pc = "returned"
        /\ RespStatus.Code = 0
        /\ ret.resp.Response = Routes
        /\ Count("Generate") = 0
        /\ Count("json.Unmarshal") = 0

C4_Witness ==
    /\ CallReturned
    /\ ret.request = [action |-> "columns", context |-> <<"{">>]
    /\ Len(plugin.columns.elems) = 2
    /\ ret.resp.Response = Routes
    /\ RespStatus.Code = 0

(***************************************************************************)
(* C5.  A Call whose action is neither "generate" nor "columns", the       *)
(* request without an "action" key included (its action string is empty),  *)
(* returns status code 1, the message "unknown action: " followed by the   *)
(* action string, and no payload; neither Generate nor Columns is invoked. *)
(***************************************************************************)
C5_UnknownActionResponse ==
    (InCall /\ ReqAction \notin {"generate", "columns"}) =>
        /\ ret.pc = "returned"
        /\ RespStatus.Code = 1
        /\ RespStatus.Message =
               "unknown action: "
                   \o (IF "action" \in DOMAIN ret.request
                       THEN ret.request["action"] ELSE "")
        /\ ret.resp.Response = NilSlice
        /\ Count("Generate") = 0
        /\ Count("Columns") = 0

C5_Witness ==
    /\ CallReturned
    /\ "action" \notin DOMAIN ret.request
    /\ HasContext
    /\ RespStatus = Status(1, "unknown action: ")

(***************************************************************************)
(* C6.  Routes() returns a sequence as long as Columns(), present even     *)
(* when it is empty, whose i-th entry is {id: "column", name: the i-th     *)
(* column's name, type: the string of the i-th column's type, op: "0"}:    *)
(* order is preserved and duplicates are kept.                             *)
(***************************************************************************)
C6_RoutesOfColumns ==
    ret.op = "Routes" =>
        /\ ~ret.value.isNil
        /\ Len(ret.value.elems) = Len(plugin.columns.elems)
        /\ \A i \in 1..Len(plugin.columns.elems) :
               ret.value.elems[i] =
                   [id |-> "column",
                    name |-> plugin.columns.elems[i].Name,
                    type |-> plugin.columns.elems[i].Type,
                    op |-> "0"]

C6_Witness ==
    /\ ret.op = "Routes"
    /\ plugin.columns = Slice(<<IntegerColumn("integer"), StringColumn("text")>>)
    /\ ret.value.elems[1].type = "INTEGER"
    /\ ret.value.elems[2].type = "TEXT"

(***************************************************************************)
(* C7.  After any sequence of Call, Routes, Name, Shutdown and Ping        *)
(* operations, Ping() returns a status with code 0 and an empty message.   *)
(***************************************************************************)
C7_PingOK ==
    ret.op = "Ping" => (ret.status.Code = 0 /\ ret.status.Message = "")

C7_Witness ==
    /\ ret.op = "Ping"
    /\ ret.status = Status(0, "")

(***************************************************************************)
(* C8.  A Call with action "generate" and no "context" key produces no     *)
(* context-parse error and invokes Generate with the nil query context;    *)
(* its response is determined by what Generate returns alone.              *)
(***************************************************************************)
C8_AbsentContext ==
    (InCall /\ ReqAction = "generate" /\ ~HasContext) =>
        /\ Count("json.Unmarshal") = 0
        /\ Count("Generate") = 1
        /\ ret.queryContext.t = "nil"
        /\ ret.pc = "returned" =>
               /\ Len(ret.generated) = 1
               /\ IF ret.generated[1].err.isNil
                  THEN /\ ret.resp.Status.ref = "StatusOK"
                       /\ ret.resp.Response = ret.generated[1].rows
                  ELSE /\ RespStatus =
                              Status(1, "error generating table: "
                                            \o ret.generated[1].err.text)
                       /\ ret.resp.Response = NilSlice

C8_Witness ==
    /\ CallReturned
    /\ ret.request = [action |-> "generate"]
    /\ ret.queryContext = NilValue
    /\ ret.trace = <<"Generate">>
    /\ ret.generated[1].err.isNil
    /\ ret.resp.Response = Slice(<<[col1 |-> "a"]>>)

(***************************************************************************)
(* C9.  A Call invokes Generate at most once: once when the action is      *)
(* "generate" and the context is absent or parses, not at all otherwise.   *)
(* An error of Generate is not followed by a second invocation, and the    *)
(* Call returns a response whose status is not nil.                        *)
(***************************************************************************)
C9_GenerateAtMostOnce ==
    InCall =>
        /\ Count("Generate") =
               (IF ReqAction = "generate" /\ ContextPasses THEN 1 ELSE 0)
        /\ ret.pc = "Generate" => Count("Generate") = 1
        /\ ret.pc = "returned" =>
               /\ Len(ret.generated) = Count("Generate")
               /\ ret.resp.Status.ref \in {"StatusOK", "new"}

C9_Witness ==
    /\ CallReturned
    /\ ret.request = [action |-> "generate", context |-> <<"1">>]
    /\ ~ret.generated[1].err.isNil
    /\ Count("Generate") = 1
    /\ ret.resp.Status.ref = "new"

(***************************************************************************)
(* C10.  The status carried by the response of one Call is shared with no  *)
(* other Call and not with Ping: when a caller assigns to the status of a  *)
(* response it was returned, Ping still reports the status StatusOK was    *)
(* declared with, and so does every successful Call when it returns.       *)
(***************************************************************************)
C10_StatusNotShared ==
    /\ ret.op = "Ping" => ret.status = StatusOKInit
    /\ (CallReturned /\ ~ret.written
            /\ \/ ReqAction = "columns"
               \/ /\ ReqAction = "generate"
                  /\ Len(ret.generated) = 1
                  /\ ret.generated[1].err.isNil) =>
           RespStatus = StatusOKInit

====
